---- MODULE Spec2Model ----
(***************************************************************************)
(* Traffic Lights (traffic-lights.py): the 3x4 board, the symmetry hash,   *)
(* the move generator, the depth-limited negamax solver with its           *)
(* transposition cache, the classification and choice of moves, and the    *)
(* game loop between the computer and the human.                           *)
(*                                                                         *)
(* A board is a tuple of 12 cells; the source's cell index i (0..11) is    *)
(* position i+1 of the tuple.  The index tables INDICES and LINES keep the *)
(* source's 0-based cell indices.                                          *)
(***************************************************************************)
EXTENDS Integers, Sequences, FiniteSets

VARIABLES opening, board, ply, cache, cache0, asked, depth, value, calls, budgets,
          hash, listed, board2, hash2,
          computer_AI, human_AI, turn, is_computer_turn, play_again, pc,
          player, W, U, L, named, values, choice, printed, mover

vars == <<opening, board, ply, cache, cache0, asked, depth, value, calls, budgets,
          hash, listed, board2, hash2,
          computer_AI, human_AI, turn, is_computer_turn, play_again, pc,
          player, W, U, L, named, values, choice, printed, mover>>

----------------------------------------------------------------------------
(* Constants of the source                                                 *)

INFINITY == 531441

ILLEGAL == 2

UNKNOWN == 0

PREV == 0 - 1

NEXT == 1

Cells == 0 .. 11

EmptyBoard == <<0, 0, 0, 0, 0, 0, 0, 0, 0, 0, 0, 0>>

EmptyCache == [h \in {} |-> UNKNOWN]

(* max() that lets an UNKNOWN reply count for nothing.                     *)
MaxSkippingUnknown(a, b) == IF b = 0 THEN a ELSE IF a >= b THEN a ELSE b

Max(a, b) == IF a >= b THEN a ELSE b

ShiftLeft(x, k) == x * 2 ^ k

RECURSIVE Sum(_, _)
Sum(b, j) == IF j > 12 THEN 0 ELSE b[j] + Sum(b, j + 1)

SumOf(b) == Sum(b, 1)

----------------------------------------------------------------------------
(* game_hash                                                               *)

(* The third table with its first two cells swapped.                       *)
INDICESSwapped ==
  << <<0, 1, 2, 3, 4, 5, 6, 7, 8, 9, 10, 11>>,
     <<11, 10, 9, 8, 7, 6, 5, 4, 3, 2, 1, 0>>,
     <<9, 8, 10, 11, 4, 5, 6, 7, 0, 1, 2, 3>>,
     <<3, 2, 1, 0, 7, 6, 5, 4, 11, 10, 9, 8>> >>

INDICES ==
  << <<0, 1, 2, 3, 4, 5, 6, 7, 8, 9, 10, 11>>,
     <<11, 10, 9, 8, 7, 6, 5, 4, 3, 2, 1, 0>>,
     <<8, 9, 10, 11, 4, 5, 6, 7, 0, 1, 2, 3>>,
     <<3, 2, 1, 0, 7, 6, 5, 4, 11, 10, 9, 8>> >>

(* One bit per cell instead of two.                                        *)
PackTermOneBit(b, e, i) == ShiftLeft(b[i + 1], e)

PackTerm(b, e, i) == ShiftLeft(b[i + 1], e * 2)

RECURSIVE PackFrom(_, _, _)
PackFrom(b, I, e) ==
  IF e = 12 THEN 0 ELSE PackTerm(b, e, I[e + 1]) + PackFrom(b, I, e + 1)

Pack(b, I) == PackFrom(b, I, 0)

game_hash(b) ==
  LET packed == {Pack(b, INDICES[k]) : k \in 1 .. 4}
  IN  CHOOSE m \in packed : \A p \in packed : m <= p

----------------------------------------------------------------------------
(* game_moves                                                              *)

(* The table with one diagonal mistyped: 2-5-8 has no mirror image.        *)
LINESMistyped ==
  << <<0, 1, 2>>, <<1, 2, 3>>, <<4, 5, 6>>, <<5, 6, 7>>, <<8, 9, 10>>,
     <<9, 10, 11>>, <<0, 4, 8>>, <<1, 5, 9>>, <<2, 6, 10>>, <<3, 7, 11>>,
     <<0, 5, 10>>, <<1, 6, 11>>, <<2, 5, 8>>, <<3, 6, 10>> >>

LINES ==
  << <<0, 1, 2>>, <<1, 2, 3>>, <<4, 5, 6>>, <<5, 6, 7>>, <<8, 9, 10>>,
     <<9, 10, 11>>, <<0, 4, 8>>, <<1, 5, 9>>, <<2, 6, 10>>, <<3, 7, 11>>,
     <<0, 5, 10>>, <<1, 6, 11>>, <<2, 5, 8>>, <<3, 6, 9>> >>

(* The line test without "0 <": three empty cells count as a line.         *)
LineDoneEmpty(b, x, y, z) == b[x + 1] = b[y + 1] /\ b[y + 1] = b[z + 1]

LineDone(b, x, y, z) == 0 < b[x + 1] /\ b[x + 1] = b[y + 1] /\ b[y + 1] = b[z + 1]

GameOver(b) == \E k \in 1 .. Len(LINES) : LineDone(b, LINES[k][1], LINES[k][2], LINES[k][3])

(* A cell at 3 still playable.                                             *)
CanPlayAtThree(b, i) == b[i + 1] <= 3

CanPlay(b, i) == b[i + 1] < 3

(* The move written over the cell after the one played.                    *)
IncrementNextCell(b, i) == [b EXCEPT ![((i + 1) % 12) + 1] = b[((i + 1) % 12) + 1] + 1]

Increment(b, i) == [b EXCEPT ![i + 1] = b[i + 1] + 1]

RECURSIVE MovesFrom(_, _, _)
MovesFrom(b, i, moves) ==
  IF i = 12 THEN moves
  ELSE MovesFrom(b, i + 1, IF CanPlay(b, i) THEN Append(moves, Increment(b, i)) ELSE moves)

game_moves(b) == IF GameOver(b) THEN << >> ELSE MovesFrom(b, 0, << >>)

----------------------------------------------------------------------------
(* game_value                                                              *)

(* Running out of depth reported as a loss for the player to move.         *)
DepthValueLost == PREV

DepthValue == UNKNOWN

(* The running maximum started from UNKNOWN.                               *)
StartValueUnknown == UNKNOWN

StartValue == PREV

(* The reply's value taken without the change of perspective.              *)
NegateDropped(v) == v

Negate(v) == 0 - v

(* Every value stored, UNKNOWN included.                                   *)
RememberAlways(c, h, v) == [k \in DOMAIN c \cup {h} |-> IF k = h THEN v ELSE c[k]]

Remember(c, h, v) ==
  IF v # UNKNOWN THEN [k \in DOMAIN c \cup {h} |-> IF k = h THEN v ELSE c[k]]
  ELSE c

RECURSIVE game_value(_, _, _), BestReply(_, _, _, _, _)

BestReply(moves, k, d, v, c) ==
  IF k > Len(moves) THEN [value |-> v, cache |-> c]
  ELSE LET r  == game_value(moves[k], d - 1, c)
           nv == Max(v, Negate(r.value))
       IN  IF nv = NEXT THEN [value |-> nv, cache |-> r.cache]
           ELSE BestReply(moves, k + 1, d, nv, r.cache)

GameValueDepthBeforeTerminal(b, d, c) ==
  LET h == game_hash(b)
  IN  IF h \in DOMAIN c THEN [value |-> c[h], cache |-> c]
      ELSE LET moves == game_moves(b)
               r == IF d = 0 THEN [value |-> DepthValue, cache |-> c]
                    ELSE IF moves = << >> THEN [value |-> PREV, cache |-> c]
                    ELSE BestReply(moves, 1, d, StartValue, c)
           IN  [value |-> r.value, cache |-> Remember(r.cache, h, r.value)]

GameValueDepthBeforeCache(b, d, c) ==
  LET h == game_hash(b)
      moves == game_moves(b)
  IN  IF d = 0 /\ moves # << >> THEN [value |-> DepthValue, cache |-> c]
      ELSE IF h \in DOMAIN c THEN [value |-> c[h], cache |-> c]
      ELSE LET r == IF moves = << >> THEN [value |-> PREV, cache |-> c]
                    ELSE BestReply(moves, 1, d, StartValue, c)
           IN  [value |-> r.value, cache |-> Remember(r.cache, h, r.value)]

game_value(b, d, c) ==
  LET h == game_hash(b)
  IN  IF h \in DOMAIN c THEN [value |-> c[h], cache |-> c]
      ELSE LET moves == game_moves(b)
               r == IF moves = << >> THEN [value |-> PREV, cache |-> c]
                    ELSE IF d = 0 THEN [value |-> DepthValue, cache |-> c]
                    ELSE BestReply(moves, 1, d, StartValue, c)
           IN  [value |-> r.value, cache |-> Remember(r.cache, h, r.value)]

----------------------------------------------------------------------------
(* The board as a 3x4 grid: the four symmetries and the fourteen lines,    *)
(* stated on rows and columns (cell i is row i \div 4, column i % 4).       *)

CellAt(r, c) == 4 * r + c

Transforms == {"identity", "rotate180", "reflectRows", "reflectCols"}

ImageCell(T, i) ==
  LET r == i \div 4
      c == i % 4
  IN  CASE T = "identity"    -> CellAt(r, c)
        [] T = "rotate180"   -> CellAt(2 - r, 3 - c)
        [] T = "reflectRows" -> CellAt(2 - r, c)
        [] T = "reflectCols" -> CellAt(r, 3 - c)

RECURSIVE TransformFrom(_, _, _, _)
TransformFrom(T, b, j, out) ==
  IF j > 12 THEN out ELSE TransformFrom(T, b, j + 1, Append(out, b[ImageCell(T, j - 1) + 1]))

Transform(T, b) == TransformFrom(T, b, 1, << >>)

Images(b) == {Transform(T, b) : T \in Transforms}

GridLines ==
  {{CellAt(r, c), CellAt(r, c + 1), CellAt(r, c + 2)} : r \in 0 .. 2, c \in 0 .. 1}
  \cup {{CellAt(0, c), CellAt(1, c), CellAt(2, c)} : c \in 0 .. 3}
  \cup {{CellAt(0, c), CellAt(1, c + 1), CellAt(2, c + 2)} : c \in 0 .. 1}
  \cup {{CellAt(0, c), CellAt(1, c - 1), CellAt(2, c - 2)} : c \in 2 .. 3}

HasLine(b) ==
  \E line \in GridLines : \E v \in 1 .. 3 : \A i \in line : b[i + 1] = v

Successors(b) ==
  IF HasLine(b) THEN {}
  ELSE {[b EXCEPT ![j] = @ + 1] : j \in {k \in 1 .. 12 : b[k] < 3}}

Range(s) == {s[k] : k \in 1 .. Len(s)}

----------------------------------------------------------------------------
(* Bounds and inputs                                                       *)

MaxPly == 1

MaxCalls == 2

MaxCells == 3

MaxPairCells == 1

Depths == {0, 2, 4, 12, 36, INFINITY}

(* Scripted openings: the cells played, in order, from the empty board.    *)
Openings ==
  { <<11, 11, 11, 10, 10, 9, 8, 8, 8, 9, 7, 7, 7, 6, 4, 4, 5, 4, 3, 2, 2, 2,
      1, 1, 1, 0>>,
    <<10, 10, 10, 9, 8, 8, 8, 7, 7, 7, 6, 6, 6, 1, 1, 5, 4, 4, 4, 3, 3, 3,
      2, 1>> }

(* The successor of b that plays the given cell; no board if that is not   *)
(* a legal move.                                                           *)
MoveOn(b, cell) ==
  LET found == {m \in Range(game_moves(b)) : m[cell + 1] # b[cell + 1]}
  IN  IF found = {} THEN << >> ELSE CHOOSE m \in found : TRUE

RECURSIVE ReplayFrom(_, _, _)
ReplayFrom(b, script, k) ==
  IF k > Len(script) \/ b = << >> THEN b
  ELSE ReplayFrom(MoveOn(b, script[k]), script, k + 1)

Replay(script) == ReplayFrom(EmptyBoard, script, 1)

StartBoards == {Replay(o) : o \in Openings}

----------------------------------------------------------------------------
(* The exact game: plain negamax without cache, by backward induction over *)
(* the boards that can follow a start board or one of its images.          *)

RECURSIVE Closure(_, _)
Closure(frontier, seen) ==
  IF frontier = {} THEN seen
  ELSE LET nxt == (UNION {Successors(b) : b \in frontier}) \ seen
       IN  Closure(nxt, seen \cup nxt)

Universe ==
  LET roots == UNION {Images(b) : b \in StartBoards}
  IN  Closure(roots, roots)

Horizon == 36 - (CHOOSE s \in {SumOf(b) : b \in Universe} :
                   \A b \in Universe : s <= SumOf(b))

LevelValue(level, b) ==
  IF b \in level.prev THEN PREV ELSE IF b \in level.next THEN NEXT ELSE UNKNOWN

MaxOf(S) == CHOOSE m \in S : \A x \in S : x <= m

LevelStep(level, b) ==
  IF HasLine(b) THEN PREV
  ELSE MaxOf({0 - LevelValue(level, m) : m \in Successors(b)})

Level0 == [prev |-> {b \in Universe : HasLine(b)}, next |-> {}]

RECURSIVE LevelsUpTo(_, _)
LevelsUpTo(levels, d) ==
  IF d > Horizon THEN levels
  ELSE LET last == levels[Len(levels)]
           this == [prev |-> {b \in Universe : LevelStep(last, b) = PREV},
                    next |-> {b \in Universe : LevelStep(last, b) = NEXT}]
       IN  LevelsUpTo(Append(levels, this), d + 1)

Levels == LevelsUpTo(<<Level0>>, 1)

(* N(b, d): no play from b is longer than Horizon plies, so a budget       *)
(* beyond Horizon is never used up.                                        *)
Negamax(b, d) == LevelValue(Levels[(IF d > Horizon THEN Horizon ELSE d) + 1], b)

Exact(b) == Negamax(b, Horizon)

----------------------------------------------------------------------------

NoMoves == << >>

(* Before any call: no result yet (the mark move() keeps in values[cell]    *)
(* until game_value has returned).                                         *)
SolverIdle ==
  /\ cache = EmptyCache
  /\ cache0 = EmptyCache
  /\ asked = EmptyBoard
  /\ depth = 0
  /\ value = ILLEGAL
  /\ calls = 0
  /\ budgets = {}

BoardsIdle ==
  /\ hash = 0
  /\ listed = NoMoves
  /\ board2 = EmptyBoard
  /\ hash2 = 0

(* The game loop's variables before traffic_lights has done anything.      *)
PlayIdle ==
  /\ computer_AI = [player |-> "computer", depth |-> 0, cache |-> EmptyCache]
  /\ human_AI = [player |-> "human", depth |-> 0, cache |-> EmptyCache]
  /\ turn = "X"
  /\ is_computer_turn = FALSE
  /\ play_again = "?"
  /\ pc = "turn"
  /\ player = "nobody"
  /\ W = << >>
  /\ U = << >>
  /\ L = << >>
  /\ named = << >>
  /\ values = << >>
  /\ choice = << >>
  /\ printed = << >>
  /\ mover = "nobody"

playVars == <<computer_AI, human_AI, turn, is_computer_turn, play_again, pc,
              player, W, U, L, named, values, choice, printed, mover>>

solverVars == <<cache, cache0, asked, depth, value, calls, budgets>>

boardsVars == <<hash, listed, board2, hash2>>

(* The solver on boards of a game in progress: the opening has been        *)
(* played, up to MaxPly further moves follow, and game_value is called on  *)
(* the current board with one cache that lives as long as the AI.          *)
Init ==
  /\ opening \in Openings
  /\ board = Replay(opening)
  /\ ply = Len(opening)
  /\ SolverIdle
  /\ BoardsIdle
  /\ PlayIdle

Play(i) ==
  /\ ply < Len(opening) + MaxPly
  /\ LET successors == game_moves(board)
     IN  /\ i \in 1 .. Len(successors)
         /\ board' = successors[i]
  /\ ply' = ply + 1
  /\ UNCHANGED <<playVars, opening, solverVars, boardsVars>>

Solve(d) ==
  /\ calls < MaxCalls
  /\ LET r == game_value(board, d, cache)
     IN  /\ value' = r.value
         /\ cache' = r.cache
  /\ cache0' = cache
  /\ asked' = board
  /\ depth' = d
  /\ calls' = calls + 1
  /\ budgets' = IF calls = 0 THEN {} ELSE budgets \cup {depth}
  /\ UNCHANGED <<playVars, opening, board, ply, boardsVars>>

Next ==
  \/ \E i \in 1 .. 12 : Play(i)
  \/ \E d \in Depths : Solve(d)

Spec == Init /\ [][Next]_vars

----------------------------------------------------------------------------
(* game_hash and game_moves on arbitrary boards with cells in 0..3: a      *)
(* board with at most MaxCells marked cells, each marked with 1, 2 or 3.   *)

Marked(b) == Cardinality({j \in 1 .. 12 : b[j] # 0})

(* Cells are marked by increasing index, so each board is built once.      *)
Beyond(b, i) == \A j \in 1 .. 12 : b[j] # 0 => j - 1 < i

InitBoards ==
  /\ opening = << >>
  /\ board = EmptyBoard
  /\ ply = 0
  /\ SolverIdle
  /\ hash = game_hash(EmptyBoard)
  /\ listed = game_moves(EmptyBoard)
  /\ board2 = EmptyBoard
  /\ hash2 = 0
  /\ PlayIdle

SetCell(i, v) ==
  /\ Beyond(board, i)
  /\ Marked(board) < MaxCells
  /\ LET b == [board EXCEPT ![i + 1] = v]
     IN  /\ board' = b
         /\ hash' = game_hash(b)
         /\ listed' = game_moves(b)
  /\ UNCHANGED <<playVars, opening, ply, solverVars, board2, hash2>>

NextBoards == \E i \in Cells : \E v \in 1 .. 3 : SetCell(i, v)

SpecBoards == InitBoards /\ [][NextBoards]_vars

----------------------------------------------------------------------------
(* game_hash on pairs of boards, each with at most MaxPairCells marked     *)
(* cells.                                                                  *)

InitPairs ==
  /\ opening = << >>
  /\ board = EmptyBoard
  /\ ply = 0
  /\ SolverIdle
  /\ hash = game_hash(EmptyBoard)
  /\ listed = NoMoves
  /\ board2 = EmptyBoard
  /\ hash2 = game_hash(EmptyBoard)
  /\ PlayIdle

SetFirst(i, v) ==
  /\ Beyond(board, i)
  /\ board2 = EmptyBoard
  /\ Marked(board) < MaxPairCells
  /\ LET b == [board EXCEPT ![i + 1] = v]
     IN  /\ board' = b
         /\ hash' = game_hash(b)
  /\ UNCHANGED <<playVars, opening, ply, solverVars, listed, board2, hash2>>

SetSecond(i, v) ==
  /\ Beyond(board2, i)
  /\ Marked(board2) < MaxPairCells
  /\ LET b == [board2 EXCEPT ![i + 1] = v]
     IN  /\ board2' = b
         /\ hash2' = game_hash(b)
  /\ UNCHANGED <<playVars, opening, ply, solverVars, listed, board, hash>>

NextPairs ==
  \/ \E i \in Cells : \E v \in 1 .. 3 : SetFirst(i, v)
  \/ \E i \in Cells : \E v \in 1 .. 3 : SetSecond(i, v)

SpecPairs == InitPairs /\ [][NextPairs]_vars

----------------------------------------------------------------------------
(* game_value at the start of a game: the board is empty, up to MaxPly     *)
(* moves follow, and game_value is called up to MaxCalls times on the same *)
(* cache with the budgets ShallowDepths.                                   *)

ShallowDepths == {0, 1}

InitEarly ==
  /\ opening = << >>
  /\ board = EmptyBoard
  /\ ply = 0
  /\ SolverIdle
  /\ BoardsIdle
  /\ PlayIdle

NextEarly ==
  \/ \E i \in Cells : Play(i)
  \/ \E d \in ShallowDepths : Solve(d)

SpecEarly == InitEarly /\ [][NextEarly]_vars

----------------------------------------------------------------------------
(* game_value on arbitrary boards with at most MaxCells marked cells, from *)
(* an empty cache: with budget 0 on the board itself, and with every       *)
(* budget of Depths on the successor that completes a line of two 3s and a *)
(* 2.                                                                      *)

(* Cell third holds 2 and closes a line whose two other cells hold 3.      *)
ClosesLine(b, third) ==
  /\ b[third + 1] = 2
  /\ \E k \in 1 .. Len(LINES) :
       LET line == {LINES[k][1], LINES[k][2], LINES[k][3]}
       IN  /\ third \in line
           /\ \A i \in line \ {third} : b[i + 1] = 3

SetCellFirst(i, v) == calls = 0 /\ SetCell(i, v)

SolveLeaf ==
  /\ calls = 0
  /\ LET r == game_value(board, 0, EmptyCache)
     IN  /\ value' = r.value
         /\ cache' = r.cache
  /\ cache0' = EmptyCache
  /\ asked' = board
  /\ depth' = 0
  /\ calls' = 1
  /\ UNCHANGED <<playVars, opening, board, ply, budgets, boardsVars>>

SolveWinningMove(third, d) ==
  /\ calls = 0
  /\ listed # << >>
  /\ ClosesLine(board, third)
  /\ LET r == game_value(Increment(board, third), d, EmptyCache)
     IN  /\ value' = r.value
         /\ cache' = r.cache
  /\ cache0' = EmptyCache
  /\ asked' = Increment(board, third)
  /\ depth' = d
  /\ calls' = 1
  /\ UNCHANGED <<playVars, opening, board, ply, budgets, boardsVars>>

NextCalls ==
  \/ \E i \in Cells : \E v \in 1 .. 3 : SetCellFirst(i, v)
  \/ SolveLeaf
  \/ \E third \in Cells : \E d \in Depths : SolveWinningMove(third, d)

SpecCalls == InitBoards /\ [][NextCalls]_vars

----------------------------------------------------------------------------
(* A game from the empty board (traffic_lights, the inner loop): the       *)
(* players follow the scripted opening, then play any legal move, until    *)
(* game_moves(board) is empty.                                             *)

InitGame ==
  /\ opening \in Openings
  /\ board = EmptyBoard
  /\ ply = 0
  /\ SolverIdle
  /\ BoardsIdle
  /\ PlayIdle

Move(i) ==
  /\ LET successors == game_moves(board)
     IN  /\ i \in 1 .. Len(successors)
         /\ ply < Len(opening) => successors[i] = MoveOn(board, opening[ply + 1])
         /\ board' = successors[i]
  /\ ply' = ply + 1
  /\ UNCHANGED <<playVars, opening, solverVars, boardsVars>>

NextGame == \E i \in 1 .. 12 : Move(i)

SpecGame == InitGame /\ [][NextGame]_vars /\ WF_vars(NextGame)

----------------------------------------------------------------------------
(* Texts.  A text is a sequence of one-character strings, so that input's  *)
(* [0], .upper() and [:2] are computed.                                    *)

Letters == <<"A", "B", "C", "D">>

Digits == <<"1", "2", "3", "4">>

NAME ==
  [k \in 1 .. 16 |-> <<Letters[((k - 1) \div 4) + 1], Digits[((k - 1) % 4) + 1]>>]

LowerCase ==
  <<"a", "b", "c", "d", "e", "f", "g", "h", "i", "j", "k", "l", "m",
    "n", "o", "p", "q", "r", "s", "t", "u", "v", "w", "x", "y", "z">>

UpperCase ==
  <<"A", "B", "C", "D", "E", "F", "G", "H", "I", "J", "K", "L", "M",
    "N", "O", "P", "Q", "R", "S", "T", "U", "V", "W", "X", "Y", "Z">>

Upper(ch) ==
  IF \E k \in 1 .. 26 : LowerCase[k] = ch
  THEN UpperCase[CHOOSE k \in 1 .. 26 : LowerCase[k] = ch]
  ELSE ch

(* input(...).upper()[:2]                                                  *)
UpperTake2(text) ==
  [k \in 1 .. (IF Len(text) < 2 THEN Len(text) ELSE 2) |-> Upper(text[k])]

None == << >>

X == <<"X">>

YouHaveWon == "You have won!"

YouHaveLost == "You have lost!"

----------------------------------------------------------------------------
(* geneate_AIs and move                                                    *)

Update(a, b) ==
  [h \in DOMAIN a \cup DOMAIN b |-> IF h \in DOMAIN b THEN b[h] ELSE a[h]]

geneate_AIs(computer, human) ==
  IF human < computer
  THEN LET h == game_value(EmptyBoard, human, EmptyCache).cache
           c == game_value(EmptyBoard, computer, Update(EmptyCache, h)).cache
       IN  [computer_AI |-> [player |-> "computer", depth |-> computer, cache |-> c],
            human_AI |-> [player |-> "human", depth |-> human, cache |-> h]]
  ELSE LET c == game_value(EmptyBoard, computer, EmptyCache).cache
           h == game_value(EmptyBoard, human, Update(EmptyCache, c)).cache
       IN  [computer_AI |-> [player |-> "computer", depth |-> computer, cache |-> c],
            human_AI |-> [player |-> "human", depth |-> human, cache |-> h]]

(* The first cell in which the move differs from the board.                *)
CellOf(b, m) ==
  CHOOSE i \in Cells :
    /\ b[i + 1] # m[i + 1]
    /\ \A j \in Cells : b[j + 1] # m[j + 1] => i <= j

(* The buckets with the value's sign kept: a move that lets the opponent   *)
(* win is filed as winning.                                                *)
BucketOfSameSign(v) == IF v = NEXT THEN "W" ELSE IF v = PREV THEN "L" ELSE "U"

BucketOf(v) == IF v = PREV THEN "W" ELSE IF v = NEXT THEN "L" ELSE "U"

(* Lines 177-179: the move is entered under its name, its value under its *)
(* cell, and the AI keeps what game_value has stored.                      *)
Noted(acc, cell, m, r) ==
  [acc EXCEPT !.moves = [n \in DOMAIN acc.moves \cup {NAME[cell + 1]} |->
                          IF n = NAME[cell + 1] THEN m ELSE acc.moves[n]],
              !.values = [acc.values EXCEPT ![cell + 1] = r.value],
              !.cache = r.cache]

(* The loop of move over game_moves(board), from move number k on.         *)
RECURSIVE Classify(_, _, _, _, _)
Classify(b, moves, k, d, acc) ==
  IF k > Len(moves) THEN acc
  ELSE LET cell == CellOf(b, moves[k])
           name == NAME[cell + 1]
           r == game_value(moves[k], d, acc.cache)
           bucket == BucketOf(r.value)
           noted == Noted(acc, cell, moves[k], r)
       IN  IF bucket = "W"
           THEN Classify(b, moves, k + 1, d, [noted EXCEPT !.W = Append(@, name)])
           ELSE IF bucket = "L"
           THEN Classify(b, moves, k + 1, d, [noted EXCEPT !.L = Append(@, name)])
           ELSE Classify(b, moves, k + 1, d, [noted EXCEPT !.U = Append(@, name)])

Classified(b, AI) ==
  Classify(b, game_moves(b), 1, AI.depth,
    [W |-> << >>, U |-> << >>, L |-> << >>,
     moves |-> [n \in {X} |-> None],
     values |-> [i \in 1 .. 12 |-> ILLEGAL],
     cache |-> AI.cache])

(* The computer's choice with the first two buckets exchanged.             *)
PoolUnknownFirst(w, u, l) ==
  IF u # << >> THEN u ELSE IF w # << >> THEN w ELSE IF l # << >> THEN l ELSE <<X>>

(* The names random.choice draws from.                                     *)
Pool(w, u, l) ==
  IF w # << >> THEN w ELSE IF u # << >> THEN u ELSE IF l # << >> THEN l ELSE <<X>>

(* The winner report with the two messages exchanged.                      *)
ReportExchanged(computerToMove) == IF computerToMove THEN YouHaveLost ELSE YouHaveWon

Report(computerToMove) == IF computerToMove THEN YouHaveWon ELSE YouHaveLost

----------------------------------------------------------------------------
(* traffic_lights: one game between the computer and the human.  The AIs   *)
(* are those geneate_AIs returns for a pair of depths of PlayDepths; the   *)
(* first moves of the game follow an opening (the human types them, and    *)
(* random.choice draws them), after which every input of MoveInputs and    *)
(* every draw is taken.  The human declines a second game.                 *)
(* pc is the statement traffic_lights waits at: "turn" and "again" are its *)
(* two prompts, "input" is the prompt inside move, "loop" the head of the  *)
(* inner loop, "done" the end of the program.                              *)

PlayDepths == {<<2, 0>>, <<0, 2>>}

PlayOpenings ==
  { <<1, 1, 0, 0, 8, 7, 7, 6, 1, 8, 6, 3, 0, 2, 10, 4, 8, 3, 7, 5, 6, 3, 10, 10>> }

TurnInputs == { <<"h", "u", "m", "a", "n">>, <<"C">>, <<"x">>, << >> }

MoveInputs ==
  {<<LowerCase[l], Digits[n]>> : l \in 1 .. 3, n \in 1 .. 4}
    \cup { <<"x">>, <<"d", "4">>, <<"B", "2", "!">>, <<"?">>, << >> }

AgainInputs == { <<"n", "o">>, <<"N">>, <<"?">>, << >> }

Scripted(name) == ply < Len(opening) => name = NAME[opening[ply + 1] + 1]

gameIdle == <<opening, cache, depth, value, calls, budgets, boardsVars>>

(* What the last call of move worked on: its AI's player, the cache it     *)
(* started from (cache0), its board (asked) and its local variables.       *)
shownVars == <<player, cache0, asked, W, U, L, named, values, choice>>

InitPlay ==
  /\ opening \in PlayOpenings
  /\ \E d \in PlayDepths :
       LET AIs == geneate_AIs(d[1], d[2])
       IN  /\ computer_AI = AIs.computer_AI
           /\ human_AI = AIs.human_AI
  /\ board = EmptyBoard
  /\ ply = 0
  /\ turn = "X"
  /\ is_computer_turn = FALSE
  /\ play_again = "?"
  /\ pc = "turn"
  /\ player = "nobody"
  /\ W = << >>
  /\ U = << >>
  /\ L = << >>
  /\ named = << >>
  /\ values = << >>
  /\ choice = << >>
  /\ printed = << >>
  /\ mover = "nobody"
  /\ SolverIdle
  /\ BoardsIdle

(* Lines 228-235: the answer's first character; an empty answer raises and *)
(* is asked again.                                                         *)
WhoPlaysFirst(raw) ==
  /\ pc = "turn"
  /\ raw # << >>
  /\ turn' = raw[1]
  /\ IF raw[1] \in {"H", "h", "C", "c"}
     THEN /\ is_computer_turn' = (raw[1] \in {"C", "c"})
          /\ board' = EmptyBoard
          /\ ply' = 0
          /\ pc' = "loop"
     ELSE UNCHANGED <<is_computer_turn, board, ply, pc>>
  /\ UNCHANGED <<computer_AI, human_AI, play_again, shownVars, printed, mover,
                 gameIdle>>

(* Lines 239-244.                                                          *)
ReportWinner ==
  /\ pc = "loop"
  /\ game_moves(board) = << >>
  /\ printed' = Report(is_computer_turn)
  /\ pc' = "again"
  /\ UNCHANGED <<computer_AI, human_AI, turn, is_computer_turn, play_again,
                 shownVars, mover, board, ply, gameIdle>>

(* Line 247 with move for the computer, and lines 249-252.                 *)
ComputerMove ==
  /\ pc = "loop"
  /\ game_moves(board) # << >>
  /\ is_computer_turn
  /\ \E r \in {Classified(board, computer_AI)} :
       /\ computer_AI' = [computer_AI EXCEPT !.cache = r.cache]
       /\ W' = r.W
       /\ U' = r.U
       /\ L' = r.L
       /\ named' = r.moves
       /\ values' = r.values
       /\ \E name \in Range(Pool(r.W, r.U, r.L)) :
            /\ Scripted(name)
            /\ choice' = name
            /\ board' = r.moves[name]
            /\ pc' = IF r.moves[name] = None THEN "again" ELSE "loop"
  /\ player' = "computer"
  /\ mover' = "computer"
  /\ cache0' = computer_AI.cache
  /\ asked' = board
  /\ ply' = ply + 1
  /\ is_computer_turn' = ~is_computer_turn
  /\ UNCHANGED <<human_AI, turn, play_again, printed, gameIdle>>

(* Line 248 with move for the human, up to its prompt.                     *)
HumanAsked ==
  /\ pc = "loop"
  /\ game_moves(board) # << >>
  /\ ~is_computer_turn
  /\ \E r \in {Classified(board, human_AI)} :
       /\ human_AI' = [human_AI EXCEPT !.cache = r.cache]
       /\ W' = r.W
       /\ U' = r.U
       /\ L' = r.L
       /\ named' = r.moves
       /\ values' = r.values
  /\ choice' = << >>
  /\ player' = "human"
  /\ cache0' = human_AI.cache
  /\ asked' = board
  /\ pc' = "input"
  /\ UNCHANGED <<computer_AI, turn, is_computer_turn, play_again, printed, mover,
                 board, ply, gameIdle>>

(* Lines 198-203, then 249-252: an answer that is a key of moves is        *)
(* returned, any other is asked again.                                     *)
HumanTyped(raw) ==
  /\ pc = "input"
  /\ LET text == UpperTake2(raw)
     IN  /\ choice' = text
         /\ IF text \in DOMAIN named
            THEN /\ Scripted(text)
                 /\ board' = named[text]
                 /\ mover' = "human"
                 /\ ply' = ply + 1
                 /\ is_computer_turn' = ~is_computer_turn
                 /\ pc' = IF named[text] = None THEN "again" ELSE "loop"
            ELSE UNCHANGED <<board, mover, ply, is_computer_turn, pc>>
  /\ UNCHANGED <<computer_AI, human_AI, turn, play_again, player, cache0, asked,
                 W, U, L, named, values, printed, gameIdle>>

(* Lines 254-259.                                                          *)
PlayAgain(raw) ==
  /\ pc = "again"
  /\ raw # << >>
  /\ play_again' = raw[1]
  /\ IF raw[1] \in {"N", "n"} THEN pc' = "done"
     ELSE IF raw[1] \in {"Y", "y"} THEN pc' = "turn"
     ELSE pc' = pc
  /\ turn' = IF raw[1] \in {"Y", "y"} THEN "X" ELSE turn
  /\ UNCHANGED <<computer_AI, human_AI, is_computer_turn, shownVars, printed,
                 mover, board, ply, gameIdle>>

NextPlay ==
  \/ \E raw \in TurnInputs : WhoPlaysFirst(raw)
  \/ ReportWinner
  \/ ComputerMove
  \/ HumanAsked
  \/ \E raw \in MoveInputs : HumanTyped(raw)
  \/ \E raw \in AgainInputs : PlayAgain(raw)

SpecPlay == InitPlay /\ [][NextPlay]_vars

----------------------------------------------------------------------------
(* traffic_lights(computer = INFINITY, human = 0), from the end of an      *)
(* opening on.  Solving the empty board with budget INFINITY stores        *)
(* 2915873 entries, so the state is taken over at the end of the opening   *)
(* from a run of the program: the moves of OmniOpenings are moves the      *)
(* program makes with either player first (the computer's are in the       *)
(* bucket it draws from), and computer_AI is what geneate_AIs and these    *)
(* moves have stored, with either player first, for the fingerprints of    *)
(* the boards that can still follow; no other entry can be looked up       *)
(* again.  human_AI holds no entry for these fingerprints.                 *)

OmniOpeningA ==
  <<10, 10, 5, 10, 3, 3, 4, 4, 1, 1, 7, 7, 7, 9, 3, 6, 8, 8, 6, 4, 8, 6, 2, 1>>

StoredPrevA ==
  {
    3661788, 3661791, 3661820, 3661821, 3661822, 3665887, 3665916, 3665917,
    3665918, 3667935, 3667951, 3667964, 3667965, 3668959, 3669980, 3669981,
    3669982, 3669996, 3669997, 3669998, 3923935, 3923964, 3923965, 3923966,
    3928031, 3928060, 3928061, 3928062, 3930079, 3931103, 3932125, 4186077,
    4192221, 4192237, 4192238, 4193245, 4193246, 4193261, 4193262, 7856093,
    7856095, 7856125, 7856126, 7860191, 7860221, 7860222, 7862239, 7862269,
    7862270, 7863263, 7864285, 7864286, 7864301, 7864302, 8118239, 8118269,
    8118270, 8122335, 8122365, 8122366, 8124383, 8125407, 8387550, 8387566,
    12054495, 12054526, 12056543, 12056574, 12057567, 12316639, 12316670,
    12318687, 12318718, 12319711 }

StoredNextA ==
  {
    3661789, 3661790, 3661804, 3661805, 3661806, 3665884, 3665885, 3665886,
    3665900, 3665901, 3665902, 3667933, 3667948, 3667949, 3667950, 3668957,
    3668958, 3668972, 3668973, 3668974, 3923933, 3923934, 3923948, 3923949,
    3923950, 3928029, 3928030, 3928044, 3928045, 3928046, 3930077, 3930078,
    3930093, 3930094, 3931101, 3931102, 3931117, 3931118, 7856094, 7856109,
    7856110, 7860189, 7860190, 7860205, 7860206, 7862238, 7862253, 7862254,
    7863262, 7863277, 7863278, 8118238, 8118253, 8118254, 8122334, 8122349,
    8122350, 8125406, 8125422, 12050398, 12050414, 12054494, 12054510,
    12056558, 12057582, 12312558, 12316654 }

OmniOpeningS ==
  <<10, 10, 4, 11, 8, 8, 5, 4, 1, 1, 2, 1, 8, 9, 11, 11, 7, 7, 7, 0, 3, 9, 2, 2,
    4, 6>>

StoredPrevS ==
  {
    8247275, 8247295, 8248319, 8249323, 8249339, 8252415, 8253419, 8312831,
    8313835, 8313839, 8313855, 8316927, 8317931, 8317935, 8317951,
    12507135, 12508139, 12508143, 12508159, 12512239 }

StoredNextS ==
  {
    8247279, 8248299, 8248303, 8248315, 8252395, 8252399, 8312811, 8312815,
    8312827, 8313851, 8316907, 8316911, 8316923, 8317947, 12507115,
    12507119, 12508155 }

Stored(prev, next) == [h \in prev \cup next |-> IF h \in prev THEN PREV ELSE NEXT]

OmniStarts ==
  { [opening |-> OmniOpeningA, cache |-> Stored(StoredPrevA, StoredNextA)],
    [opening |-> OmniOpeningS, cache |-> Stored(StoredPrevS, StoredNextS)] }

InitOmni ==
  /\ \E start \in OmniStarts :
       /\ opening = start.opening
       /\ board = Replay(start.opening)
       /\ ply = Len(start.opening)
       /\ computer_AI = [player |-> "computer", depth |-> INFINITY, cache |-> start.cache]
       /\ human_AI = [player |-> "human", depth |-> 0, cache |-> EmptyCache]
       /\ \E first \in {"h", "C"} :
            /\ turn = first
            /\ is_computer_turn = ((first = "C") = (Len(start.opening) % 2 = 0))
            /\ mover = IF (first = "C") = (Len(start.opening) % 2 = 0)
                       THEN "human" ELSE "computer"
  /\ play_again = "?"
  /\ pc = "loop"
  /\ player = "nobody"
  /\ W = << >>
  /\ U = << >>
  /\ L = << >>
  /\ named = << >>
  /\ values = << >>
  /\ choice = << >>
  /\ printed = << >>
  /\ SolverIdle
  /\ BoardsIdle

(* The game goes on: the program takes its next step (ReportWinner,        *)
(* ComputerMove, HumanAsked), or the human gives an answer that move       *)
(* accepts.  These are the steps that change pc or ply.                    *)
Advance ==
  /\ pc \in {"loop", "input"}
  /\ pc' \in {"loop", "input", "again"}
  /\ ply' \in {ply, ply + 1}

NextOmni ==
  \/ ReportWinner
  \/ ComputerMove
  \/ HumanAsked
  \/ \E raw \in MoveInputs : HumanTyped(raw)
  \/ \E raw \in AgainInputs : PlayAgain(raw)

SpecOmni == InitOmni /\ [][NextOmni]_vars /\ WF_<<pc, ply>>(Advance)

----------------------------------------------------------------------------

(* Exact value of every board of Universe, by fingerprint.                 *)
ExactByHash == {<<game_hash(b), Exact(b)>> : b \in Universe}

Resolved == {PREV, NEXT}

(* C1: a cache populated by calls at one budget d1, then a call at a       *)
(* larger budget d2 with that cache: when that call and a from-scratch     *)
(* call at d2 on the same board both resolve, they return the same value.  *)
CacheSoundness ==
  (calls >= 2 /\ Cardinality(budgets) = 1 /\ \A d1 \in budgets : d1 < depth)
    => LET fresh == game_value(asked, depth, EmptyCache).value
       IN  (value # UNKNOWN /\ fresh # UNKNOWN) => value = fresh

CacheSoundnessWitness ==
  /\ calls >= 2
  /\ budgets = {2}
  /\ depth = 4
  /\ cache0 # EmptyCache
  /\ game_hash(asked) \notin DOMAIN cache0
  /\ value = PREV
  /\ game_value(asked, depth, EmptyCache).value = PREV

(* C2: every PREV or NEXT that game_value returns, and every entry of the  *)
(* cache, is the exact game value of the position: the value of every      *)
(* board that has that fingerprint.                                        *)
ResolvedExact ==
  /\ (calls > 0 /\ value \in Resolved) => value = Exact(asked)
  /\ \A h \in DOMAIN cache :
       /\ <<h, cache[h]>> \in ExactByHash
       /\ \A v \in {PREV, UNKNOWN, NEXT} \ {cache[h]} : <<h, v>> \notin ExactByHash

ResolvedExactWitness ==
  /\ calls >= 2
  /\ depth \notin budgets
  /\ depth < 12
  /\ value = NEXT
  /\ cache0 # EmptyCache
  /\ Cardinality(DOMAIN cache) > Cardinality(DOMAIN cache0)

(* C3: no fingerprint of the cache maps to UNKNOWN.                        *)
CacheNeverUnknown == \A h \in DOMAIN cache : cache[h] \in Resolved

CacheNeverUnknownWitness ==
  /\ calls > 0
  /\ value = UNKNOWN
  /\ cache0 = EmptyCache
  /\ DOMAIN cache # {}

(* C8: started with an empty cache, game_value(B, d, {}) is the plain      *)
(* depth-limited negamax N(B, d).                                          *)
NegamaxValue == (calls > 0 /\ cache0 = EmptyCache) => value = Negamax(asked, depth)

NegamaxValueWitness ==
  /\ calls > 0
  /\ cache0 = EmptyCache
  /\ depth = 4
  /\ value = PREV
  /\ Negamax(asked, 3) = UNKNOWN
  /\ Cardinality(DOMAIN cache) > 1

(* C9: a budget that covers what is left of the game (36 minus the cells'  *)
(* sum; 36 on the empty board, so every budget >= 36 on every board) never *)
(* returns UNKNOWN.                                                        *)
ExhaustiveResolved ==
  (calls > 0 /\ depth + SumOf(asked) >= 36) => value \in Resolved

ExhaustiveResolvedWitness ==
  /\ calls > 0
  /\ depth = 36
  /\ cache0 = EmptyCache
  /\ value = PREV
  /\ Negamax(asked, 3) = UNKNOWN

----------------------------------------------------------------------------

(* C4: the fingerprint of a board is the fingerprint of each of its four   *)
(* images (identity, 180-degree rotation, rows reversed, columns           *)
(* reversed).                                                              *)
SymmetryInvariance == \A T \in Transforms : game_hash(Transform(T, board)) = hash

SymmetryInvarianceWitness ==
  /\ Cardinality(Images(board)) = 4
  /\ hash # Pack(board, INDICES[1])
  /\ hash = game_hash(Transform("reflectRows", board))

(* C5: two boards have the same fingerprint exactly when one is an image   *)
(* of the other under one of the four transforms.                          *)
NoFalseCollision == (hash = hash2) <=> (board2 \in Images(board))

NoFalseCollisionWitness ==
  /\ hash = hash2
  /\ board # board2
  /\ Marked(board) > 0

(* C6: game_moves is empty exactly when some line of the grid holds three  *)
(* equal nonzero cells, whatever the other cells are.                      *)
TerminalDetection == (listed = << >>) <=> HasLine(board)

TerminalDetectionWitness ==
  /\ listed = << >>
  /\ HasLine(board)
  /\ \E j \in 1 .. 12 : board[j] < 3

(* C7: on a board without a line, game_moves lists one successor per cell  *)
(* below 3, by increasing cell index, each the board with that one cell    *)
(* incremented by one.                                                     *)
MoveGeneration ==
  ~HasLine(board) =>
    LET open == {i \in Cells : board[i + 1] < 3}
    IN  /\ Len(listed) = Cardinality(open)
        /\ \A k \in 1 .. Len(listed) :
             \E i \in open :
               /\ Cardinality({j \in open : j < i}) = k - 1
               /\ listed[k] = [board EXCEPT ![i + 1] = board[i + 1] + 1]

MoveGenerationWitness ==
  /\ ~HasLine(board)
  /\ Len(listed) = 10
  /\ board[1] = 3
  /\ board[2] = 1

(* C10: from the empty board every legal move adds one to the sum of the   *)
(* cells and keeps every cell in 0..3, no play has more than 36 plies, and *)
(* every play reaches a board without legal moves.                        *)
FiniteGame ==
  /\ [](\A j \in 1 .. 12 : board[j] \in 0 .. 3)
  /\ [](ply = SumOf(board) /\ ply <= 36)
  /\ [][SumOf(board') = SumOf(board) + 1]_vars
  /\ <>(game_moves(board) = << >>)

FiniteGameWitness ==
  /\ ply > Len(opening)
  /\ game_moves(board) = << >>
  /\ \E j \in 1 .. 12 : board[j] < 3

----------------------------------------------------------------------------

(* C11: game_value(empty board, 1, {}) returns UNKNOWN and stores nothing: *)
(* the cache holds no UNKNOWN and no entry for the empty board or for any  *)
(* of its 12 successors.                                                   *)
DepthLimitedUnknown ==
  (calls > 0 /\ asked = EmptyBoard /\ depth = 1 /\ cache0 = EmptyCache) =>
    /\ value = UNKNOWN
    /\ \A h \in DOMAIN cache : cache[h] # UNKNOWN
    /\ game_hash(EmptyBoard) \notin DOMAIN cache
    /\ Len(game_moves(EmptyBoard)) = 12
    /\ \A m \in Range(game_moves(EmptyBoard)) : game_hash(m) \notin DOMAIN cache

DepthLimitedUnknownWitness ==
  /\ calls > 0
  /\ asked = EmptyBoard
  /\ depth = 1
  /\ cache0 = EmptyCache
  /\ value = UNKNOWN

(* C12: on a board without a line where two cells of a line hold 3 and the *)
(* third holds 2, the successor that takes the third cell to 3 is among    *)
(* game_moves(board), and game_value on it from an empty cache is PREV at  *)
(* every budget.                                                           *)
ImmediateWin ==
  /\ \A third \in Cells :
       (~HasLine(board) /\ ClosesLine(board, third)) =>
         [board EXCEPT ![third + 1] = 3] \in Range(game_moves(board))
  /\ \A third \in Cells :
       (calls > 0 /\ ~HasLine(board) /\ ClosesLine(board, third)
          /\ asked = [board EXCEPT ![third + 1] = 3]) => value = PREV

ImmediateWinWitness ==
  /\ calls > 0
  /\ depth = 0
  /\ ~HasLine(board)
  /\ \E third \in Cells :
       ClosesLine(board, third) /\ asked = [board EXCEPT ![third + 1] = 3]
  /\ value = PREV

(* C16: at budget 0 with the fingerprint not in the cache, a board with a  *)
(* line returns PREV and PREV is stored; a board without a line returns    *)
(* UNKNOWN and the cache is left as it was.                                *)
TerminalBeforeDepth ==
  (calls > 0 /\ depth = 0 /\ game_hash(asked) \notin DOMAIN cache0) =>
    IF HasLine(asked)
    THEN /\ value = PREV
         /\ DOMAIN cache = DOMAIN cache0 \cup {game_hash(asked)}
         /\ cache[game_hash(asked)] = PREV
         /\ \A h \in DOMAIN cache0 : cache[h] = cache0[h]
    ELSE /\ value = UNKNOWN
         /\ cache = cache0

TerminalBeforeDepthWitness ==
  /\ calls > 0
  /\ depth = 0
  /\ HasLine(asked)
  /\ value = PREV
  /\ \E j \in 1 .. 12 : asked[j] < 3

(* C17: a call whose fingerprint is already cached returns the stored      *)
(* value at every budget, 0 included, and leaves the cache as it was; and  *)
(* no step removes a cache entry or changes its value.                     *)
CacheHitWriteOnce ==
  /\ [] ((calls > 0 /\ game_hash(asked) \in DOMAIN cache0) =>
          (value = cache0[game_hash(asked)] /\ cache = cache0))
  /\ [][\A h \in DOMAIN cache : h \in DOMAIN cache' /\ cache'[h] = cache[h]]_vars

CacheHitWriteOnceWitness ==
  /\ calls > 1
  /\ depth = 0
  /\ game_moves(asked) # << >>
  /\ game_hash(asked) \in DOMAIN cache0
  /\ value = cache0[game_hash(asked)]
  /\ cache = cache0

(* C19: each of the four transforms maps the set of lines onto itself, a   *)
(* board has no moves exactly when its image has none, the successors of   *)
(* the image are the images of the successors, and the image has the same  *)
(* exhaustive game value.                                                  *)
LineSet == {{LINES[k][1], LINES[k][2], LINES[k][3]} : k \in 1 .. Len(LINES)}

TransformSymmetry ==
  \A T \in Transforms :
    LET image == Transform(T, board)
    IN  /\ {{ImageCell(T, i) : i \in line} : line \in LineSet} = LineSet
        /\ (game_moves(image) = << >>) = (game_moves(board) = << >>)
        /\ (GameOver(image) <=> GameOver(board))
        /\ Range(game_moves(image))
             = {Transform(T, m) : m \in Range(game_moves(board))}
        /\ (ply >= Len(opening)) =>
             game_value(image, INFINITY, EmptyCache).value
               = game_value(board, INFINITY, EmptyCache).value

TransformSymmetryWitness ==
  /\ ply > Len(opening)
  /\ game_moves(board) # << >>
  /\ game_value(board, INFINITY, EmptyCache).value = NEXT
  /\ \E T \in Transforms :
       /\ Transform(T, board) # board
       /\ game_hash(Transform(T, board)) = game_hash(board)
       /\ game_value(Transform(T, board), INFINITY, EmptyCache).value = NEXT

(* The cells a move may be made in, the successor a move in a cell leads   *)
(* to, and the cells whose move the last call of move valued as v.         *)
LegalCells(b) == IF HasLine(b) THEN {} ELSE {i \in Cells : b[i + 1] < 3}

SuccessorAt(b, i) == [b EXCEPT ![i + 1] = @ + 1]

CellsValued(v) == {i \in LegalCells(asked) : values[i + 1] = v}

NamesOf(cells) == {NAME[i + 1] : i \in cells}

MoveReturned == player # "nobody" /\ mover = player /\ pc # "input"

(* C13: the computer's move is drawn from the moves valued PREV if there   *)
(* are any, else from those valued UNKNOWN if there are any, else from     *)
(* those valued NEXT, and the board returned is the successor of that      *)
(* name, one of game_moves(board).                                         *)
SelectionPolicy ==
  (player = "computer") =>
    /\ board \in Range(game_moves(asked))
    /\ \E i \in LegalCells(asked) : choice = NAME[i + 1] /\ board = SuccessorAt(asked, i)
    /\ CellsValued(PREV) # {} => choice \in NamesOf(CellsValued(PREV))
    /\ (CellsValued(PREV) = {} /\ CellsValued(UNKNOWN) # {}) =>
         choice \in NamesOf(CellsValued(UNKNOWN))
    /\ (CellsValued(PREV) = {} /\ CellsValued(UNKNOWN) = {}) =>
         choice \in NamesOf(CellsValued(NEXT))

SelectionPolicyWitness ==
  /\ player = "computer"
  /\ ply > Len(opening)
  /\ CellsValued(PREV) = {}
  /\ CellsValued(UNKNOWN) # {}
  /\ CellsValued(NEXT) # {}
  /\ choice \in NamesOf(CellsValued(UNKNOWN))

(* The values game_value returns when called on the successors of b in    *)
(* the order of the cells, each call on the cache the one before has left; *)
(* ILLEGAL for a cell without a move.                                      *)
RECURSIVE ValuesInOrder(_, _, _, _, _)
ValuesInOrder(b, d, i, c, out) ==
  IF i = 12 THEN out
  ELSE IF i \in LegalCells(b)
  THEN LET r == game_value(SuccessorAt(b, i), d, c)
       IN  IF r.value \in {PREV, UNKNOWN, NEXT}
           THEN ValuesInOrder(b, d, i + 1, r.cache, Append(out, r.value))
           ELSE << >>
  ELSE ValuesInOrder(b, d, i + 1, c, Append(out, ILLEGAL))

LastDepth == IF player = "computer" THEN computer_AI.depth ELSE human_AI.depth

(* C14: after move has valued the successors, a name is in W exactly when  *)
(* game_value returned PREV for its successor, in L exactly when it        *)
(* returned NEXT, in U exactly when it returned UNKNOWN; every legal move   *)
(* is in one bucket once, and a cell without a legal move keeps ILLEGAL.   *)
MoveClassification ==
  (player # "nobody") =>
    /\ values = ValuesInOrder(asked, LastDepth, 0, cache0, << >>)
    /\ Range(W) = NamesOf(CellsValued(PREV))
    /\ Range(L) = NamesOf(CellsValued(NEXT))
    /\ Range(U) = NamesOf(CellsValued(UNKNOWN))
    /\ Len(W) + Len(U) + Len(L) = Cardinality(LegalCells(asked))
    /\ \A i \in Cells \ LegalCells(asked) : values[i + 1] = ILLEGAL
    /\ \A i \in LegalCells(asked) : values[i + 1] # ILLEGAL

MoveClassificationWitness ==
  /\ player = "human"
  /\ ply > Len(opening)
  /\ W # << >>
  /\ L # << >>
  /\ Len(W) + Len(U) + Len(L) > 2
  /\ Cardinality(LegalCells(asked)) < 12

(* C15: whenever move has returned, for the computer or for the human and *)
(* whatever the human has typed, the board it returned is one of           *)
(* game_moves of the board it was called with.                             *)
LegalMoveReturned == MoveReturned => board \in Range(game_moves(asked))

Finished == board # None /\ HasLine(board)

FirstPlayer == IF turn \in {"C", "c"} THEN "computer" ELSE "human"

(* C18: a move is asked for only on a board without a line, the first move *)
(* is made by the player chosen at the prompt and each later one by the    *)
(* other player than the one before, and the report on a board with a line *)
(* is "You have won!" exactly when the human made the last move and "You   *)
(* have lost!" exactly when the computer did.                              *)
TurnsAndWinner ==
  /\ [][(ply' = ply + 1) =>
          /\ ~Finished
          /\ mover' = (IF is_computer_turn THEN "computer" ELSE "human")
          /\ is_computer_turn' = ~is_computer_turn
          /\ (ply = 0) => (mover' = FirstPlayer)
          /\ (ply > 0) => (mover' # mover)]_vars
  /\ [] (pc = "input" => ~Finished)
  /\ [] (printed = YouHaveWon => (Finished /\ mover = "human"))
  /\ [] (printed = YouHaveLost => (Finished /\ mover = "computer"))
  /\ [] ((pc \in {"again", "done"} /\ Finished) =>
           printed = (IF mover = "human" THEN YouHaveWon ELSE YouHaveLost))

TurnsAndWinnerWitness ==
  /\ pc = "again"
  /\ Finished
  /\ FirstPlayer = "computer"
  /\ mover = "human"
  /\ printed = YouHaveWon
  /\ ply > Len(opening)

(* The computer is to move on a board of exact value NEXT, or the human on *)
(* a board of exact value PREV.                                            *)
ComputerWinning ==
  /\ pc \in {"loop", "input"}
  /\ board # None
  /\ Exact(board) = (IF is_computer_turn THEN NEXT ELSE PREV)

(* C20: with budget INFINITY the computer, to move on a board of exact     *)
(* value NEXT, moves to a board of exact value PREV; from then on it stays *)
(* the winning side whatever legal move the human makes, until "You have   *)
(* lost!" is printed or the human leaves the game; "You have won!" is      *)
(* printed only after the human has moved from a board of exact value      *)
(* NEXT; and every game comes to its end.                                  *)
NeverThrowsAwayAWin ==
  /\ [][(ComputerWinning /\ is_computer_turn /\ board' # board) =>
          (board' \in Successors(board) /\ Exact(board') = PREV)]_vars
  /\ [][ComputerWinning =>
          (ComputerWinning' \/ printed' = YouHaveLost \/ board' = None)]_vars
  /\ [] (ComputerWinning => printed # YouHaveWon)
  /\ [] ((printed = YouHaveWon) => (mover = "human" /\ Exact(asked) = NEXT))
  /\ ((pc \in {"loop", "input"}) ~> (pc \in {"again", "done"}))

NeverThrowsAwayAWinWitness ==
  /\ printed = YouHaveLost
  /\ mover = "computer"
  /\ player = "computer"
  /\ ply > Len(opening) + 2
  /\ Exact(asked) = NEXT
  /\ Exact(board) = PREV

====
